---- MODULE Spec2Model ----
(***************************************************************************)
(* Model of the Monte Carlo option pricer: the xorshift32 generator        *)
(* (src/src/rng.c), the Box-Muller sampler, the GBM terminal price         *)
(* (src/src/gbm.c), the payoffs (src/src/option.c), the Monte Carlo        *)
(* estimator and the Black-Scholes oracle (src/src/monte_carlo.c).         *)
(*                                                                         *)
(* A uint32_t is the set of its one-bits (bit positions 0..31), so that    *)
(* shifts truncate at 32 bits exactly as in C.  A double is abstracted to  *)
(* the set of IEEE-754 classes it can have ("NaN", "NInf", "Neg", "Zero",  *)
(* "Pos", "PInf"); every arithmetic operator below follows the IEEE rules  *)
(* for these classes and is deterministic on the abstract values.          *)
(***************************************************************************)
EXTENDS Integers, Sequences, FiniteSets, TLC

\* ------------------------------------------------------------------ bounds
\* Number of xorshift32 steps followed after a call of rng_seed (or from the start).
MaxSteps == 6
\* Largest simulation count n_sim passed to price_european_call_mc.
MaxSim == 2
\* Number of lines the real-stock test reads from its CSV file.
MaxLines == 3

\* ------------------------------------------------------------ 32-bit words
WORD_BITS == 32
Bit == 0 .. (WORD_BITS - 1)

\* The word with the 16-bit halves hi and lo.
U32(hi, lo) ==
    {i \in 0 .. 15 : (lo \div (2 ^ i)) % 2 = 1}
        \cup {i + 16 : i \in {j \in 0 .. 15 : (hi \div (2 ^ j)) % 2 = 1}}

\* UINT32_MAX: all 32 bits set.
UINT32_MAX == Bit
ZERO32 == {}

Xor(a, b) == (a \ b) \cup (b \ a)
Shl(a, n) == {i + n : i \in {j \in a : j + n < WORD_BITS}}
Shr(a, n) == {i - n : i \in {j \in a : j >= n}}

\* ------------------------------------------------------- abstract doubles
Cls == {"NaN", "NInf", "Neg", "Zero", "Pos", "PInf"}
Finite == {"Neg", "Zero", "Pos"}

Sgn(c) == IF c \in {"NInf", "Neg"} THEN -1 ELSE IF c = "Zero" THEN 0 ELSE 1
IsInf(c) == c \in {"NInf", "PInf"}
InfOf(s) == IF s < 0 THEN "NInf" ELSE "PInf"
FinOf(s) == IF s < 0 THEN "Neg" ELSE IF s = 0 THEN "Zero" ELSE "Pos"

\* The class of the double holding the (small) integer n.
ClsOf(n) == {FinOf(n)}

negC(a) == IF a = "NaN" THEN {"NaN"}
           ELSE IF IsInf(a) THEN {InfOf(-Sgn(a))} ELSE {FinOf(-Sgn(a))}

mulC(a, b) ==
    IF a = "NaN" \/ b = "NaN" THEN {"NaN"}
    ELSE IF (IsInf(a) /\ b = "Zero") \/ (a = "Zero" /\ IsInf(b)) THEN {"NaN"}
    ELSE IF IsInf(a) \/ IsInf(b) THEN {InfOf(Sgn(a) * Sgn(b))}
    ELSE {FinOf(Sgn(a) * Sgn(b))}

addC(a, b) ==
    IF a = "NaN" \/ b = "NaN" THEN {"NaN"}
    ELSE IF IsInf(a) /\ IsInf(b) THEN (IF a = b THEN {a} ELSE {"NaN"})
    ELSE IF IsInf(a) THEN {a}
    ELSE IF IsInf(b) THEN {b}
    ELSE IF a = "Zero" THEN {b}
    ELSE IF b = "Zero" THEN {a}
    ELSE IF a = b THEN {a}
    ELSE {"Neg", "Zero", "Pos"}

\* A zero divisor may be +0 or -0, so a nonzero dividend gives either infinity.
divC(a, b) ==
    IF a = "NaN" \/ b = "NaN" THEN {"NaN"}
    ELSE IF IsInf(a) /\ IsInf(b) THEN {"NaN"}
    ELSE IF a = "Zero" /\ b = "Zero" THEN {"NaN"}
    ELSE IF b = "Zero" THEN {"NInf", "PInf"}
    ELSE IF IsInf(a) THEN {InfOf(Sgn(a) * Sgn(b))}
    ELSE IF IsInf(b) THEN {"Zero"}
    ELSE {FinOf(Sgn(a) * Sgn(b))}

sqrtC(a) == IF a \in {"NaN", "NInf", "Neg"} THEN {"NaN"} ELSE {a}

expC(a) == IF a = "NaN" THEN {"NaN"}
           ELSE IF a = "NInf" THEN {"Zero"}
           ELSE IF a = "PInf" THEN {"PInf"}
           ELSE {"Pos"}

\* log of a value of class a that compares to 1 as cmp (-1, 0, 1).
logC(a, cmp) ==
    IF a \in {"NaN", "NInf", "Neg"} THEN {"NaN"}
    ELSE IF a = "Zero" THEN {"NInf"}
    ELSE IF a = "PInf" THEN {"PInf"}
    ELSE {FinOf(cmp)}

Neg1(A) == UNION {negC(a) : a \in A}
Mul(A, B) == UNION {mulC(a, b) : a \in A, b \in B}
Add(A, B) == UNION {addC(a, b) : a \in A, b \in B}
Div(A, B) == UNION {divC(a, b) : a \in A, b \in B}
Sqrt(A) == UNION {sqrtC(a) : a \in A}
Exp(A) == UNION {expC(a) : a \in A}

\* ------------------------------------------------------------ rng.c
\* rng_seed: the new value of rng_state, given its old value and the seed.
rng_seed_keeps_zero(state, seed) == seed
rng_seed_skips_zero(state, seed) == IF seed = ZERO32 THEN state ELSE seed
rng_seed(state, seed) == IF seed = ZERO32 THEN U32(0, 1) ELSE seed

\* xorshift32: the new state, which is also the value returned.
XorShl(x, n) == Xor(x, Shl(x, n))
XorShr(x, n) == Xor(x, Shr(x, n))
xorshift32_no_xor(state) == XorShl(XorShr(Shl(state, 13), 17), 5)
xorshift32(state) == XorShl(XorShr(XorShl(state, 13), 17), 5)

\* random_double: (double)x / (double)UINT32_MAX, kept as the exact quotient
\* num/den; both conversions are exact (a double holds every 32-bit integer),
\* and the rounded quotient is 0 iff num = 0 and 1 iff num = den.
Scaled(x) == [state |-> x, u |-> [num |-> x, den |-> UINT32_MAX]]
random_double(state) == Scaled(xorshift32(state))

UIsZero(u) == u.num = ZERO32
UIsOne(u) == u.num = u.den
UClass(u) == IF UIsZero(u) THEN {"Zero"} ELSE {"Pos"}

\* log(u): -Inf at 0, 0 at 1, negative in between.
LogU(u) == UNION {logC(c, IF UIsOne(u) THEN 0 ELSE -1) : c \in UClass(u)}

\* cos(2*pi*u): positive for u < 1/4 and u > 3/4, negative in between; with
\* den = 2^32 - 1 this is decided by the two top bits of num (u is never
\* exactly 1/4 or 3/4, and cos of a double is never exactly 0).
CosU(u) == IF (31 \in u.num) = (30 \in u.num) THEN {"Pos"} ELSE {"Neg"}

\* normal_random: two uniforms, then sqrt(-2.0 * log(u1)) * cos(2.0 * M_PI * u2).
BoxMuller(state, u1, u2) ==
    [state |-> state, u1 |-> u1, u2 |-> u2,
     z |-> Mul(Sqrt(Mul({"Neg"}, LogU(u1))), CosU(u2))]
SecondDraw(u1, d2) == BoxMuller(d2.state, u1, d2.u)
ReusedDraw(d1) == BoxMuller(d1.state, d1.u, d1.u)
normal_random_one_draw(state) == ReusedDraw(random_double(state))
FirstDraw(d1) == SecondDraw(d1.u, random_double(d1.state))
normal_random(state) == FirstDraw(random_double(state))

\* ------------------------------------------------------------ option.c
\* The payoffs on exactly representable (integer-valued) doubles.
put_payoff_always_exercised(S, K) == K - S
call_payoff(S, K) == IF S > K THEN S - K ELSE 0
put_payoff(S, K) == IF K > S THEN K - S ELSE 0

\* call_payoff on the classes of S, with K a known finite integer: the
\* comparison S > K is false for NaN and decided by the signs when they differ.
call_payoff_cls(s, K) ==
    IF s = "NaN" \/ s = "NInf" THEN {"Zero"}
    ELSE IF s = "PInf" THEN {"PInf"}
    ELSE IF Sgn(s) > Sgn(FinOf(K)) THEN {"Pos"}
    ELSE IF Sgn(s) < Sgn(FinOf(K)) \/ s = "Zero" THEN {"Zero"}
    ELSE {"Zero", "Pos"}

CallPayoffCls(ST, K) == UNION {call_payoff_cls(s, K) : s \in ST}

\* -------------------------------------------------------------- gbm.c
\* Parameters are integers: S0 and K in dollars, r and sigma in percent, T in
\* years.  The sign of r - 0.5*sigma^2 is the sign of 200*r - sigma^2 in these
\* units (the parameter grid has no value where the double rounds to a tie).
Terminal(n, S0, r, sigma, T) ==
    [state |-> n.state, u1 |-> n.u1, u2 |-> n.u2,
     ST |-> Mul(ClsOf(S0),
                Exp(Add(Mul(ClsOf(200 * r - sigma * sigma), ClsOf(T)),
                        Mul(Mul(ClsOf(sigma), Sqrt(ClsOf(T))), n.z))))]
simulate_gbm(state, S0, r, sigma, T) == Terminal(normal_random(state), S0, r, sigma, T)

\* ------------------------------------------------------- monte_carlo.c
\* One iteration of the loop of price_european_call_mc: the path g is priced
\* and added to the running payoff_sum; raws are the raw draws consumed.
AddPath(prev, g, K) ==
    [state |-> g.state, sum |-> Add(prev.sum, CallPayoffCls(g.ST, K)),
     raws |-> prev.raws \o <<g.u1.num, g.u2.num>>]
Iterate(prev, S0, K, r, sigma, T) ==
    AddPath(prev, simulate_gbm(prev.state, S0, r, sigma, T), K)

\* The loop: after[i] is the result of i iterations.
mc_loop(state, S0, K, r, sigma, T, n_sim) ==
    LET after[i \in 0 .. n_sim] ==
            IF i = 0 THEN [state |-> state, sum |-> {"Zero"}, raws |-> <<>>]
            ELSE Iterate(after[i - 1], S0, K, r, sigma, T)
    IN  after[n_sim]

\* payoff_sum / n_sim * exp(-r * T).
Discounted(run, r, T, n_sim) ==
    [state |-> run.state, raws |-> run.raws, status |-> "returned",
     price |-> Mul(Div(run.sum, ClsOf(n_sim)), Exp(Mul(Neg1(ClsOf(r)), ClsOf(T))))]

\* price_european_call_mc: no argument is checked; the function has no error
\* path and always returns a double.
price_european_call_mc(state, S0, K, r, sigma, T, n_sim) ==
    Discounted(mc_loop(state, S0, K, r, sigma, T, n_sim), r, T, n_sim)

\* ------------------------------------------------------------ normal.c
\* normal_cdf: 0.5 * (1.0 + erf(x / sqrt(2.0))); erf is -1 and 1 at the
\* infinities and strictly inside (-1, 1) elsewhere.
normal_cdf_cls(x) ==
    IF x = "NaN" THEN {"NaN"} ELSE IF x = "NInf" THEN {"Zero"} ELSE {"Pos"}

normal_cdf(X) == UNION {normal_cdf_cls(x) : x \in X}

Abs(n) == IF n < 0 THEN -n ELSE n

\* log(S0 / K): the class of the quotient, compared with 1 when positive.
LogRatio(S0, K) ==
    UNION {logC(q, IF Abs(S0) > Abs(K) THEN 1
                   ELSE IF Abs(S0) = Abs(K) THEN 0 ELSE -1) : q \in Div(ClsOf(S0), ClsOf(K))}

\* price_european_call_bs: d1 is always computed by the division by
\* sigma * sqrt_T; `den` is that divisor.
BsFormula(S0, K, r, T, den, d1, d2) ==
    [status |-> "returned", den |-> den, d1 |-> d1,
     price |-> Add(Mul(ClsOf(S0), normal_cdf(d1)),
                   Neg1(Mul(Mul(ClsOf(K), Exp(Mul(Neg1(ClsOf(r)), ClsOf(T)))),
                            normal_cdf(d2))))]
BsD2(S0, K, r, T, den, d1) == BsFormula(S0, K, r, T, den, d1, Add(d1, Neg1(den)))
BsD1(S0, K, r, sigma, T, den) ==
    BsD2(S0, K, r, T, den,
         Div(Add(LogRatio(S0, K), Mul(ClsOf(200 * r + sigma * sigma), ClsOf(T))), den))
price_european_call_bs(S0, K, r, sigma, T) ==
    BsD1(S0, K, r, sigma, T, Mul(ClsOf(sigma), Sqrt(ClsOf(T))))

\* ------------------------------------------- tests/test_real_stocks.c
\* A line returned by fgets is its first character (line[0]; "" when the
\* string is empty, so that line[0] is the terminating NUL) and its
\* comma-separated fields.  A field is a number ("num", with its value), other
\* text of at most 9 characters ("text"), longer text ("long") or nothing
\* ("empty").  Numbers are in the units of the parameters above.
Num(v) == [kind |-> "num", val |-> v]
Text == [kind |-> "text", val |-> 0]

CSV_FIELDS == 7
DAYS_PER_YEAR == 365

\* The conversions of sscanf's format "%9[^,],%lf,%lf,%lf,%lf,%d,%lf": the
\* ticker is one to nine characters other than a comma and must be followed
\* by a comma, every other field must be a number.
Converts(i, field) ==
    IF i = 1 THEN field.kind \in {"num", "text"} ELSE field.kind = "num"

\* sscanf's return value: conversion stops at the first field that fails.
Converted(fields) ==
    LET ok[i \in 0 .. CSV_FIELDS] ==
            IF i = 0 THEN TRUE
            ELSE ok[i - 1] /\ i <= Len(fields) /\ Converts(i, fields[i])
    IN  Cardinality({i \in 1 .. CSV_FIELDS : ok[i]})

\* sscanf assigns the fields it converted and leaves the rest of *opt alone.
Stored(opt, fields, parsed) ==
    [ticker         |-> IF parsed >= 1 THEN fields[1].val ELSE opt.ticker,
     S0             |-> IF parsed >= 2 THEN fields[2].val ELSE opt.S0,
     K              |-> IF parsed >= 3 THEN fields[3].val ELSE opt.K,
     r              |-> IF parsed >= 4 THEN fields[4].val ELSE opt.r,
     sigma          |-> IF parsed >= 5 THEN fields[5].val ELSE opt.sigma,
     days_to_expiry |-> IF parsed >= 6 THEN fields[6].val ELSE opt.days_to_expiry,
     market_price   |-> IF parsed >= 7 THEN fields[7].val ELSE opt.market_price]

Scanned(opt, fields, parsed) ==
    [ok |-> parsed = CSV_FIELDS, opt |-> Stored(opt, fields, parsed)]
ScannedWithoutMarket(opt, fields, parsed) ==
    [ok |-> parsed >= CSV_FIELDS - 1, opt |-> Stored(opt, fields, parsed)]

IsSkipped(line) == line.first \in {"#", "\n", ""}

parse_csv_line_six_fields(line, opt) ==
    IF IsSkipped(line) THEN [ok |-> FALSE, opt |-> opt]
    ELSE ScannedWithoutMarket(opt, line.fields, Converted(line.fields))
parse_csv_line(line, opt) ==
    IF IsSkipped(line) THEN [ok |-> FALSE, opt |-> opt]
    ELSE Scanned(opt, line.fields, Converted(line.fields))

\* (double)days / 365.0, for a whole number of years.
days_to_years(days) == days \div DAYS_PER_YEAR

\* x + 1 in uint32_t: the lowest clear bit is set and the bits below it are
\* cleared; UINT32_MAX + 1 wraps to 0.
Carry(x, k) == (x \ (0 .. k)) \cup {k}
Inc(x) ==
    IF x = UINT32_MAX THEN ZERO32
    ELSE Carry(x, CHOOSE k \in Bit \ x : \A j \in Bit \ x : k <= j)

\* g_seed + test_num in uint32_t, test_num >= 0.
Plus32(x, n) ==
    LET sum[i \in 0 .. n] == IF i = 0 THEN x ELSE Inc(sum[i - 1])
    IN  sum[n]

absC(a) == IF a = "NInf" THEN "PInf" ELSE IF a = "Neg" THEN "Pos" ELSE a
Fabs(A) == {absC(a) : a \in A}

\* The outcomes of fabs(err) < 1.0, on A = fabs(err): false for NaN and
\* infinity, true for zero, either for a positive finite value.
LessThanOne(A) ==
    {b \in BOOLEAN : \E a \in A : IF b THEN a \in {"Zero", "Pos"}
                                  ELSE a \in {"NaN", "PInf", "Pos"}}

\* mc_bs_error = ((mc_price - bs_price) / bs_price) * 100.0
ErrorPct(mc_price, bs_price) ==
    Mul(Div(Add(mc_price, Neg1(bs_price)), bs_price), {"Pos"})

Compared(seed, T, mc, bs) ==
    [seed |-> seed, T |-> T, state |-> mc.state, raws |-> mc.raws, mc |-> mc.price,
     bs |-> bs, err |-> ErrorPct(mc.price, bs.price)]
PricedFrom(seed, state, opt, T, n_sim) ==
    Compared(seed, T,
             price_european_call_mc(state, opt.S0, opt.K, opt.r, opt.sigma, T, n_sim),
             price_european_call_bs(opt.S0, opt.K, opt.r, opt.sigma, T))

\* test_option: rng_seed(g_seed + test_num), then the Monte Carlo price, then
\* the Black-Scholes price; returns mc_bs_error.  The market comparison and
\* the moneyness are only printed.
test_option(state, g_seed, opt, n_sim, test_num) ==
    PricedFrom(Plus32(g_seed, test_num), rng_seed(state, Plus32(g_seed, test_num)),
               opt, days_to_years(opt.days_to_expiry), n_sim)

\* ------------------------------------------------------------- inputs
\* Seeds: 0, 1, 42 (the test's default g_seed), 123456 (main.c), UINT32_MAX,
\* 0x80000000 and 0x5E6CFCE7.
Seeds == {U32(0, 0), U32(0, 1), U32(0, 42), U32(1, 57920), U32(65535, 65535),
          U32(32768, 0), U32(24172, 64743)}

S0Vals == {-100, 0, 90, 100}
KVals == {-100, 0, 100}
RVals == {0, 5}
SigmaVals == {-20, 0, 20}
TVals == {-1, 0, 1}
PayoffVals == {-100, 0, 90, 100}

\* The pricing requests: main.c's parameters (S0 = K = 100, r = 5%, sigma = 20%,
\* T = 1) with at most one of them replaced by another value of the grid, and
\* the request with both r = 0 and sigma = 0.
Base == [S0 |-> 100, K |-> 100, r |-> 5, sigma |-> 20, T |-> 1]
Params ==
    {p \in [S0 : S0Vals, K : KVals, r : RVals, sigma : SigmaVals, T : TVals] :
        Cardinality({f \in DOMAIN Base : p[f] # Base[f]}) <= 1}
    \cup {[Base EXCEPT !.r = 0, !.sigma = 0]}

\* The lines of the CSV file: a comment (whose text would parse as a record),
\* an empty line, an empty string, two records (one year to expiry, and
\* expiring today), a record without its market price, one whose strike is
\* not a number and one whose ticker has more than nine characters.
Record(S0, K, r, sigma, days, market) ==
    [first |-> "A",
     fields |-> <<Text, Num(S0), Num(K), Num(r), Num(sigma), Num(days), Num(market)>>]
Lines ==
    {[Record(100, 100, 5, 20, 365, 10) EXCEPT !.first = "#"],
     [first |-> "\n", fields |-> <<>>],
     [first |-> "", fields |-> <<>>],
     Record(100, 100, 5, 20, 365, 10),
     Record(90, 100, 5, 20, 0, 0),
     [first |-> "A",
      fields |-> <<Text, Num(100), Num(100), Num(5), Num(20), Num(365)>>],
     [first |-> "A",
      fields |-> <<Text, Num(100), Text, Num(5), Num(20), Num(365), Num(10)>>],
     [Record(100, 100, 5, 20, 365, 10) EXCEPT !.fields[1].kind = "long"]}

\* g_seed: the default 42u, and UINT32_MAX from "--seed -1".
GSeeds == {U32(0, 42), UINT32_MAX}

\* -------------------------------------------------------------- state
VARIABLES
    rng_state,    \* static uint32_t rng_state
    seeded,       \* rng_seed has been called
    steps,        \* number of xorshift32 calls since rng_seed (or the start)
    last,         \* the latest call: its name, arguments and results
    twin_state,   \* rng_state of a second run of the program
    twin_last,    \* the latest call of the second run
    twin_seeds,   \* <<seed of this run, seed of the second run>>, once seeded
    batch         \* main of tests/test_real_stocks.c: g_seed, its locals, the lines read

vars == <<rng_state, seeded, steps, last, twin_state, twin_last, twin_seeds, batch>>
twinVars == <<twin_state, twin_last, twin_seeds>>

NoU == [num |-> ZERO32, den |-> UINT32_MAX]

\* A call record with every field at its default.  S0 and K also hold the
\* arguments S and K of a payoff call and num its result; raws are the raw
\* xorshift32 outputs the call consumed, u the uniform returned by
\* random_double (for normal_random: u1, the argument of log), value the
\* double returned and den the divisor sigma * sqrt_T of d1.
Blank == [op |-> "none", seed |-> ZERO32, S0 |-> 0, K |-> 0, r |-> 0, sigma |-> 0,
          T |-> 0, n_sim |-> 0, raws |-> <<>>, u |-> NoU, status |-> "returned",
          value |-> {}, den |-> {}, num |-> 0]

\* The record of each call, from what the call returned.
SeedCall(seed) == [Blank EXCEPT !.op = "rng_seed", !.seed = seed]

DrawCall(d) ==
    [Blank EXCEPT !.op = "random_double", !.raws = <<d.u.num>>, !.u = d.u,
                      !.value = UClass(d.u)]

NormalCall(n) ==
    [Blank EXCEPT !.op = "normal_random", !.raws = <<n.u1.num, n.u2.num>>,
                      !.u = n.u1, !.value = n.z]

GbmCall(g, S0, r, sigma, T) ==
    [Blank EXCEPT !.op = "simulate_gbm", !.S0 = S0, !.r = r, !.sigma = sigma,
                      !.T = T, !.raws = <<g.u1.num, g.u2.num>>, !.u = g.u1,
                      !.value = g.ST]

McCall(m, S0, K, r, sigma, T, n_sim) ==
    [Blank EXCEPT !.op = "price_european_call_mc", !.S0 = S0, !.K = K, !.r = r,
                      !.sigma = sigma, !.T = T, !.n_sim = n_sim, !.raws = m.raws,
                      !.status = m.status, !.value = m.price]

BsCall(b, S0, K, r, sigma, T) ==
    [Blank EXCEPT !.op = "price_european_call_bs", !.S0 = S0, !.K = K, !.r = r,
                      !.sigma = sigma, !.T = T, !.status = b.status,
                      !.value = b.price, !.den = b.den]

\* The real-stock test before main runs: g_seed has its initializer, the
\* locals of main are not yet set (opt is written by parse_csv_line before it
\* is read).  read is the sequence of lines fgets returned and seeds the
\* arguments rng_seed was called with.
NoOpt == [ticker |-> 0, S0 |-> 0, K |-> 0, r |-> 0, sigma |-> 0,
          days_to_expiry |-> 0, market_price |-> 0]
NotStarted ==
    [pc |-> "start", g_seed |-> U32(0, 42), n_sim |-> 0, opt |-> NoOpt,
     read |-> <<>>, seeds |-> <<>>, total |-> 0, within_1pct |-> 0,
     total_error |-> {"Zero"}, report |-> "none"]

Init ==
    /\ rng_state = ZERO32
    /\ seeded = FALSE
    /\ steps = 0
    /\ last = Blank
    /\ twin_state = ZERO32
    /\ twin_last = Blank
    /\ twin_seeds = <<>>
    /\ batch = NotStarted

\* ------------------------------------------------------------- actions
RngSeed(seed) ==
    /\ rng_state' = rng_seed(rng_state, seed)
    /\ seeded' = TRUE
    /\ steps' = 0
    /\ last' = SeedCall(seed)
    /\ UNCHANGED <<twinVars, batch>>

\* The generator moves to `state` after n more xorshift32 calls.
Advance(state, n) ==
    /\ rng_state' = state
    /\ steps' = steps + n
    /\ UNCHANGED <<seeded, twinVars, batch>>

DrawReturns(d) == Advance(d.state, 1) /\ last' = DrawCall(d)
RandomDouble ==
    /\ steps + 1 <= MaxSteps
    /\ DrawReturns(random_double(rng_state))

NormalReturns(n) == Advance(n.state, 2) /\ last' = NormalCall(n)
NormalRandom ==
    /\ steps + 2 <= MaxSteps
    /\ NormalReturns(normal_random(rng_state))

GbmReturns(g, S0, r, sigma, T) ==
    Advance(g.state, 2) /\ last' = GbmCall(g, S0, r, sigma, T)
SimulateGbm(S0, r, sigma, T) ==
    /\ steps + 2 <= MaxSteps
    /\ GbmReturns(simulate_gbm(rng_state, S0, r, sigma, T), S0, r, sigma, T)

McReturns(m, S0, K, r, sigma, T, n_sim) ==
    /\ Advance(m.state, 2 * n_sim)
    /\ last' = McCall(m, S0, K, r, sigma, T, n_sim)
PriceMc(S0, K, r, sigma, T, n_sim) ==
    /\ steps + 2 * n_sim <= MaxSteps
    /\ McReturns(price_european_call_mc(rng_state, S0, K, r, sigma, T, n_sim),
                 S0, K, r, sigma, T, n_sim)

PriceBsDrawing(S0, K, r, sigma, T) ==
    /\ steps + 1 <= MaxSteps
    /\ Advance(xorshift32(rng_state), 1)
    /\ last' = BsCall(price_european_call_bs(S0, K, r, sigma, T), S0, K, r, sigma, T)
PriceBs(S0, K, r, sigma, T) ==
    /\ last' = BsCall(price_european_call_bs(S0, K, r, sigma, T), S0, K, r, sigma, T)
    /\ UNCHANGED <<rng_state, seeded, steps, twinVars, batch>>

NormalCdf(x) ==
    /\ last' = [Blank EXCEPT !.op = "normal_cdf", !.value = normal_cdf({x})]
    /\ UNCHANGED <<rng_state, seeded, steps, twinVars, batch>>

CallPayoff(S, K) ==
    /\ last' = [Blank EXCEPT !.op = "call_payoff", !.S0 = S, !.K = K,
                             !.num = call_payoff(S, K)]
    /\ UNCHANGED <<rng_state, seeded, steps, twinVars, batch>>

PutPayoff(S, K) ==
    /\ last' = [Blank EXCEPT !.op = "put_payoff", !.S0 = S, !.K = K,
                             !.num = put_payoff(S, K)]
    /\ UNCHANGED <<rng_state, seeded, steps, twinVars, batch>>

Next ==
    \/ \E seed \in Seeds : RngSeed(seed)
    \/ RandomDouble
    \/ NormalRandom
    \/ \E p \in Params : SimulateGbm(p.S0, p.r, p.sigma, p.T)
    \/ \E p \in Params, n_sim \in 0 .. MaxSim :
          PriceMc(p.S0, p.K, p.r, p.sigma, p.T, n_sim)
    \/ \E p \in Params : PriceBs(p.S0, p.K, p.r, p.sigma, p.T)
    \/ \E x \in Cls : NormalCdf(x)
    \/ \E S \in PayoffVals, K \in PayoffVals : CallPayoff(S, K)
    \/ \E S \in PayoffVals, K \in PayoffVals : PutPayoff(S, K)

Spec == Init /\ [][Next]_vars

\* ---------------------------------------------------- two runs, in step
\* A second run of the same program makes the same calls with the same
\* arguments; only the seeds given to rng_seed may differ between the runs.
TwinRngSeed(seed, twin_seed) ==
    /\ rng_state' = rng_seed(rng_state, seed)
    /\ twin_state' = rng_seed(twin_state, twin_seed)
    /\ seeded' = TRUE
    /\ steps' = 0
    /\ last' = SeedCall(seed)
    /\ twin_last' = SeedCall(twin_seed)
    /\ twin_seeds' = <<seed, twin_seed>>
    /\ UNCHANGED batch

TwinAdvance(state, state2, n) ==
    /\ rng_state' = state
    /\ twin_state' = state2
    /\ steps' = steps + n
    /\ UNCHANGED <<seeded, twin_seeds, batch>>

TwinDrawReturns(d, d2) ==
    TwinAdvance(d.state, d2.state, 1) /\ last' = DrawCall(d) /\ twin_last' = DrawCall(d2)
TwinRandomDouble ==
    /\ steps + 1 <= MaxSteps
    /\ TwinDrawReturns(random_double(rng_state), random_double(twin_state))

TwinNormalReturns(n, n2) ==
    TwinAdvance(n.state, n2.state, 2) /\ last' = NormalCall(n) /\ twin_last' = NormalCall(n2)
TwinNormalRandom ==
    /\ steps + 2 <= MaxSteps
    /\ TwinNormalReturns(normal_random(rng_state), normal_random(twin_state))

TwinMcReturns(m, m2, S0, K, r, sigma, T, n_sim) ==
    /\ TwinAdvance(m.state, m2.state, 2 * n_sim)
    /\ last' = McCall(m, S0, K, r, sigma, T, n_sim)
    /\ twin_last' = McCall(m2, S0, K, r, sigma, T, n_sim)
TwinPriceMc(S0, K, r, sigma, T, n_sim) ==
    /\ steps + 2 * n_sim <= MaxSteps
    /\ TwinMcReturns(price_european_call_mc(rng_state, S0, K, r, sigma, T, n_sim),
                     price_european_call_mc(twin_state, S0, K, r, sigma, T, n_sim),
                     S0, K, r, sigma, T, n_sim)

TwinNext ==
    \/ \E seed \in Seeds, twin_seed \in Seeds : TwinRngSeed(seed, twin_seed)
    \/ TwinRandomDouble
    \/ TwinNormalRandom
    \/ \E p \in Params, n_sim \in 0 .. MaxSim :
          TwinPriceMc(p.S0, p.K, p.r, p.sigma, p.T, n_sim)

TwinSpec == Init /\ [][TwinNext]_vars

\* ------------------------------------------ main of test_real_stocks.c
\* The command line sets g_seed and n_sim; fopen succeeds.
MainOpens(g_seed, n_sim) ==
    /\ batch.pc = "start"
    /\ batch' = [batch EXCEPT !.pc = "loop", !.g_seed = g_seed, !.n_sim = n_sim]
    /\ UNCHANGED <<rng_state, seeded, steps, last, twinVars>>

\* fopen fails: main returns 1.
MainCannotOpen(g_seed, n_sim) ==
    /\ batch.pc = "start"
    /\ batch' = [batch EXCEPT !.pc = "exit", !.g_seed = g_seed, !.n_sim = n_sim,
                              !.report = "cannot open"]
    /\ UNCHANGED <<rng_state, seeded, steps, last, twinVars>>

\* One iteration of the while loop whose parse_csv_line returned 0.
Skip(line, p) ==
    /\ batch' = [batch EXCEPT !.read = Append(@, line), !.opt = p.opt]
    /\ UNCHANGED <<rng_state, seeded, steps, last, twinVars>>

\* One iteration whose parse_csv_line returned 1 and test_option returned t.
Count(line, p, t, within) ==
    /\ batch' = [batch EXCEPT !.read = Append(@, line), !.opt = p.opt,
                              !.seeds = Append(@, t.seed),
                              !.total = @ + 1,
                              !.within_1pct = IF within THEN @ + 1 ELSE @,
                              !.total_error = Add(@, Fabs(t.err))]
    /\ rng_state' = t.state
    /\ seeded' = TRUE
    /\ steps' = Len(t.raws)
    /\ last' = BsCall(t.bs, p.opt.S0, p.opt.K, p.opt.r, p.opt.sigma, t.T)
    /\ UNCHANGED twinVars

TestReturns(line, p, t) ==
    \E within \in LessThanOne(Fabs(t.err)) : Count(line, p, t, within)

Parsed(line, p) ==
    IF p.ok
    THEN TestReturns(line, p, test_option(rng_state, batch.g_seed, p.opt,
                                          batch.n_sim, batch.total))
    ELSE Skip(line, p)

ReadLine(line) ==
    /\ batch.pc = "loop"
    /\ Len(batch.read) < MaxLines
    /\ Parsed(line, parse_csv_line(line, batch.opt))

\* fgets returns NULL: the footer is printed when a record was priced.
Eof ==
    /\ batch.pc = "loop"
    /\ batch' = [batch EXCEPT !.pc = "exit",
                              !.report = IF batch.total > 0 THEN "footer"
                                         ELSE "no valid data"]
    /\ UNCHANGED <<rng_state, seeded, steps, last, twinVars>>

BatchNext ==
    \/ \E g_seed \in GSeeds, n_sim \in 0 .. MaxSim : MainOpens(g_seed, n_sim)
    \/ \E g_seed \in GSeeds, n_sim \in 0 .. MaxSim : MainCannotOpen(g_seed, n_sim)
    \/ \E line \in Lines : ReadLine(line)
    \/ Eof

BatchSpec == Init /\ [][BatchNext]_vars

\* ------------------------------------------------------------- claims
IsMc == last.op = "price_european_call_mc"
IsBs == last.op = "price_european_call_bs"
NonFinite == {"NaN", "NInf", "PInf"}

\* C1: price_european_call_mc called with n_sim = 0 fails with InvalidArgument
\* instead of returning a price.
C1_ZeroSimRejected ==
    (IsMc /\ last.n_sim = 0) => last.status = "InvalidArgument"

\* C2: price_european_call_mc with n_sim >= 1 and S0 <= 0, K <= 0, T < 0 or
\* sigma < 0 fails with InvalidArgument and draws nothing for the simulation.
C2_InvalidArgumentRejected ==
    (/\ IsMc
     /\ last.n_sim >= 1
     /\ (last.S0 <= 0 \/ last.K <= 0 \/ last.T < 0 \/ last.sigma < 0))
        => (last.status = "InvalidArgument" /\ last.raws = <<>>)

\* C3: price_european_call_bs with sigma = 0 or T = 0 (S0 > 0, K > 0) either
\* fails explicitly or returns a finite price without having divided by
\* sigma * sqrt(T) = 0.
C3_DegenerateHandled ==
    (IsBs /\ (last.sigma = 0 \/ last.T = 0) /\ last.S0 > 0 /\ last.K > 0)
        => \/ last.status = "InvalidArgument"
           \/ ("Zero" \notin last.den /\ last.value \cap NonFinite = {})

\* C4: two runs seeded with the same value that then make the same calls are
\* in the same generator state after every call, and every call consumed the
\* same raw outputs and returned the same result, whatever either run did
\* before seeding.
C4_Determinism ==
    (Len(twin_seeds) = 2 /\ twin_seeds[1] = twin_seeds[2])
        => (rng_state = twin_state /\ last = twin_last)

C4_Witness ==
    /\ Len(twin_seeds) = 2
    /\ twin_seeds[1] = twin_seeds[2]
    /\ IsMc
    /\ last.n_sim = MaxSim
    /\ last.value = {"Zero", "Pos"}

\* C5: once rng_seed has been called, rng_state is never zero, under any
\* sequence of further rng_seed calls and draws.
C5_StateNeverZero == seeded => rng_state # ZERO32

C5_Witness == seeded /\ steps = MaxSteps /\ last.op = "random_double"

\* C6: after seeding, the raw output scaled by random_double is below
\* UINT32_MAX, so the uniform returned is strictly less than 1.
C6_UniformBelowOne ==
    (seeded /\ last.op = "random_double") => ~UIsOne(last.u)

\* C7: a run seeded with 0 and a run seeded with 1 are both in state 1 after
\* rng_seed and stay in the same state, with the same results, on every later
\* call.
C7_ZeroSeedIsOne ==
    (twin_seeds = <<ZERO32, U32(0, 1)>>)
        => /\ rng_state = twin_state
           /\ last.op = "rng_seed" => rng_state = U32(0, 1)
           /\ last.op # "rng_seed" => last = twin_last

C7_Witness ==
    /\ twin_seeds = <<ZERO32, U32(0, 1)>>
    /\ last.op = "normal_random"
    /\ steps = MaxSteps

\* C8: in every call of normal_random, before or after seeding, the first
\* uniform u1, the argument of log, is strictly positive.
C8_LogArgumentPositive ==
    last.op = "normal_random" => ~UIsZero(last.u)

\* C9: call_payoff(S, K) - put_payoff(S, K) = S - K for all S and K.
C9_PutCallParity ==
    /\ last.op = "call_payoff"
          => last.num - put_payoff(last.S0, last.K) = last.S0 - last.K
    /\ last.op = "put_payoff"
          => call_payoff(last.S0, last.K) - last.num = last.S0 - last.K

C9_Witness == last.op = "call_payoff" /\ last.S0 > last.K /\ last.num > 0

\* C10: price_european_call_bs, normal_cdf, call_payoff and put_payoff leave
\* rng_state (and the number of draws made) unchanged.
PureCalls == {"price_european_call_bs", "normal_cdf", "call_payoff", "put_payoff"}
C10_OracleFrame ==
    [][last'.op \in PureCalls => (rng_state' = rng_state /\ steps' = steps)]_vars

C10_Witness == IsBs /\ seeded /\ steps > 0 /\ steps < MaxSteps

\* The first n outputs of xorshift32 from `state`, in order.
Stream(state, n) ==
    LET s[i \in 0 .. n] == IF i = 0 THEN state ELSE xorshift32(s[i - 1])
    IN  [i \in 1 .. n |-> s[i]]

DrawingCalls == {"random_double", "normal_random", "simulate_gbm",
                 "price_european_call_mc"}
DrawsOf(call) ==
    IF call.op = "random_double" THEN 1
    ELSE IF call.op = "price_european_call_mc" THEN 2 * call.n_sim
    ELSE 2

\* C11: random_double takes one xorshift32 step, normal_random and
\* simulate_gbm two, price_european_call_mc exactly 2 * n_sim whatever the
\* payoffs; the draws a call consumes are the next outputs of the stream from
\* the state the previous call left, and the call leaves the generator in the
\* state of its last draw (never an earlier one).
C11_DrawAccounting ==
    [][last'.op \in DrawingCalls =>
          /\ last'.raws = Stream(rng_state, DrawsOf(last'))
          /\ rng_state' = IF DrawsOf(last') = 0 THEN rng_state
                          ELSE Stream(rng_state, DrawsOf(last'))[DrawsOf(last')]
          /\ steps' = steps + DrawsOf(last')]_vars

C11_Witness ==
    /\ IsMc
    /\ last.n_sim = MaxSim
    /\ last.value = {"Zero"}
    /\ Len(last.raws) = 2 * MaxSim
    /\ steps > 2 * MaxSim

\* A valid line in the claim's sense: not a comment, not empty, and seven
\* fields of which the last six are numbers.
IsValidLine(line) ==
    /\ ~IsSkipped(line)
    /\ Len(line.fields) >= CSV_FIELDS
    /\ line.fields[1].kind \in {"num", "text"}
    /\ \A i \in 2 .. CSV_FIELDS : line.fields[i].kind = "num"

LastRead(b) == b.read[Len(b.read)]

\* The state price_european_call_mc leaves after 2 * n_sim draws from `state`.
EndOfRun(state, n_sim) ==
    IF n_sim = 0 THEN state ELSE Stream(state, 2 * n_sim)[2 * n_sim]

\* C12: in the batch loop a line that fails to parse is a no-op (the loop goes
\* on, the generator is neither reseeded nor advanced, total, within_1pct and
\* total_error keep their values); every valid line is priced, the k-th one
\* (from 0) after rng_seed(g_seed + k); and within_1pct <= total = number of
\* valid lines read so far.
C12_BadLineIsNoOp ==
    /\ [](/\ batch.total = Len(SelectSeq(batch.read, IsValidLine))
          /\ batch.within_1pct <= batch.total
          /\ Len(batch.seeds) = batch.total
          /\ \A k \in 0 .. batch.total - 1 :
                batch.seeds[k + 1] = Plus32(batch.g_seed, k))
    /\ [][batch'.read # batch.read =>
            IF IsValidLine(LastRead(batch'))
            THEN /\ batch'.total = batch.total + 1
                 /\ rng_state' = EndOfRun(rng_seed(rng_state,
                                                   Plus32(batch.g_seed, batch.total)),
                                          batch.n_sim)
                 /\ last'.op = "price_european_call_bs"
            ELSE /\ batch'.pc = "loop"
                 /\ UNCHANGED <<rng_state, seeded, steps, last>>
                 /\ batch'.total = batch.total
                 /\ batch'.within_1pct = batch.within_1pct
                 /\ batch'.total_error = batch.total_error]_vars

C12_Witness ==
    /\ Len(batch.read) = 3
    /\ IsValidLine(batch.read[1])
    /\ ~IsValidLine(batch.read[2])
    /\ batch.read[2].first = "A"
    /\ IsValidLine(batch.read[3])
    /\ batch.total = 2
    /\ batch.within_1pct = 1
    /\ batch.seeds = <<UINT32_MAX, ZERO32>>
    /\ batch.n_sim = MaxSim

====
